---- MODULE Spec2Model ----
(***************************************************************************)
(* Model of the resumable collection engine of reddit-stats:               *)
(*   src/src/ingest/subreddit_subscribers.py  run(), and its caller        *)
(*   src/src/main.py  main(); the master list run() reads is written by    *)
(*   src/scripts/fetch_subreddit_list.py  process_arctic_shift_file().     *)
(*                                                                         *)
(* One run of run() is a sequence of steps whose position is pc:           *)
(*   "idle"      no run has started yet                                    *)
(*   "loop"      at the head of `for i, subreddit in enumerate(pending)`   *)
(*   "got"       fetch_subreddit_stats(subreddit) has returned or raised   *)
(*   "mark"      rows converted (and written, if any); line 240 is next    *)
(*   "returned"  run() has returned a value to main()                      *)
(*   "raised"    an exception has escaped run()                            *)
(* Entities are the opaque names 1..MaxEntities; the master list           *)
(* subreddits.json is a sequence of them in which a name can occur twice   *)
(* (nothing that writes or reads the list removes duplicates).  Time is    *)
(* counted in ticks of TickSeconds.                                        *)
(***************************************************************************)
EXTENDS Integers, Sequences, FiniteSets, TLC

\* ---------------------------------------------------------------- bounds
MaxEntities == 3     \* longest master list explored
MaxClock == 3        \* the clock stops advancing at this tick
TickSeconds == 43200 \* seconds per clock tick (12 h)
MaxLatencySteps == 7 \* longest fetch latency explored, in steps of LatencyStep
LatencyStep == 3480  \* seconds per latency step (a sixth of the run budget)
MaxRewrites == 1     \* most runs of fetch_subreddit_list.py explored
MaxCalls == 7        \* most logical fetch calls made of the fetch client on its own
RequestSeconds == 1  \* seconds one HTTP request takes, fetch client on its own

\* ------------------------------------------------------ program constants
\* MAX_CONSECUTIVE_ERRORS is 50 in the source; the model keeps the code's
\* comparison and scales the value so that streaks fit the master list.
MAX_CONSECUTIVE_ERRORS == 2
\* 5.8 * 60 * 60
GH_ACTIONS_MAX_RUN_SECONDS == 20880
\* `if hours_since_block >= 24`
COOLDOWN_HOURS == 24
\* `.total_seconds() / 3600`
SECONDS_PER_HOUR == 3600
\* blocked_at = None (state.get("blocked_at") of a state without the key)
None == 0
\* @limits(calls=STATS_CALLS_PER_MINUTE, period=60).  STATS_CALLS_PER_MINUTE is
\* 15 in the source; the model scales it, keeping it above STOP_AFTER_ATTEMPT so
\* that, as in the source, the attempts of one call alone stay within it.
STATS_CALLS_PER_MINUTE == 6
LIMIT_PERIOD == 60
\* process_arctic_shift_file prints top_subreddits[999] before it writes the
\* list (line 97), so a list of fewer than 1000 names ends in IndexError and is
\* never written.  1000 in the source; scaled to fit MaxEntities.
MIN_TOP_SUBREDDITS == 1
\* stop=stop_after_attempt(5)
STOP_AFTER_ATTEMPT == 5
\* wait=wait_exponential(multiplier=2, min=5, max=120)
WAIT_MULTIPLIER == 2
WAIT_MIN == 5
WAIT_MAX == 120

VARIABLES
    state,                \* the Collection State Store: what save_state last wrote
    rewrites,             \* how many times fetch_subreddit_list.py has rewritten the master list
    subreddits_file,      \* the master list file subreddits.json: what json.load reads from it
    remote,               \* the remote's answer per entity ("any": unconstrained)
    latency,              \* seconds one fetch_subreddit_stats call takes
    clock,                \* wall clock, in ticks (time.time(), datetime.now())
    pc,                   \* position of the run
    fetched_subreddits,   \* run(): local set
    failed_subreddits,    \* run(): local set
    blocked_subreddits,   \* run(): local set
    blocked_at,           \* run(): local, the loaded blocked_at
    subreddits,           \* run(): the master list load_subreddit_list() returned (line 135)
    pending,              \* run(): the backlog
    i,                    \* run(): 1-based index of the loop into pending
    consecutive_errors,   \* run(): local counter
    current_block_batch,  \* run(): local list
    start_time,           \* run(): time.time() at entry
    stats,                \* outcome of the fetch of pending[i] ("none" outside its use)
    needs_continuation,   \* main(): the value run() returned
    verdict,              \* terminal state of the last run that returned
    calls,                \* history: the fetch calls of this run, in order
    sink_error,           \* history: the sink call that raised in the step just taken
    returned,             \* history: <<terminal state, value>> of the last run that returned
    runs,                 \* history: runs started (counted where tracked)
    snap,                 \* history: the persisted state when the last run started
    output,               \* the Output Sink: entities whose rows were written (where tracked)
    client_pc,            \* fetch_subreddit_stats: position of the logical call
    attempt_number,       \* tenacity: attempts made in this logical call
    outcome,              \* tenacity: how the last attempt ended
    result,               \* what the logical call handed to its caller
    num_calls,            \* ratelimit: calls counted in the current period
    last_reset,           \* ratelimit: when the current period started
    client_clock,         \* the fetch client's clock, in seconds
    requests,             \* history: when the HTTP requests of the last period were sent
    logical_calls         \* history: calls of fetch_subreddit_stats so far

storeVars == <<state>>
localVars == <<fetched_subreddits, failed_subreddits, blocked_subreddits, blocked_at,
               subreddits, pending, i, consecutive_errors, current_block_batch, start_time, stats>>
resultVars == <<needs_continuation, verdict, returned>>
clientVars == <<client_pc, attempt_number, outcome, result, num_calls, last_reset,
                client_clock, requests, logical_calls>>
envVars == <<subreddits_file, rewrites, remote, latency, clientVars>>
\* kept up to date only by the specifications that track them
idemVars == <<runs, snap, output>>
vars == <<state, subreddits_file, rewrites, remote, latency, clock, pc, fetched_subreddits,
          failed_subreddits, blocked_subreddits, blocked_at, subreddits, pending, i,
          consecutive_errors, current_block_batch, start_time, stats,
          needs_continuation, verdict, calls, sink_error, returned, runs, snap,
          output,
          client_pc, attempt_number, outcome, result, num_calls, last_reset,
          client_clock, requests, logical_calls>>

\* ---------------------------------------------------------------- helpers
Range(s) == {s[k] : k \in 1..Len(s)}

\* the entity names
Names == 1..MaxEntities

\* l names its entities in order of first occurrence: 1, then 2, ...  Before
\* anything has run no name is bound to anything, so the lists of this form are
\* every first list up to the choice of names.
FirstOccurrencesInOrder(l) ==
    \A k \in 1..Len(l) : \A e \in 1..(l[k] - 1) : \E j \in 1..(k - 1) : l[j] = e

\* The lists process_arctic_shift_file writes: the names of the dump that have
\* subscribers, ordered by subscriber count and cut to top_n.  The dump decides
\* the order, can name an entity twice, can rank the names of the list before
\* it in another order, drop them and bring new ones in: every sequence of
\* names of a length from MIN_TOP_SUBREDDITS to MaxEntities.
TopSubreddits ==
    UNION {[1..n -> Names] : n \in MIN_TOP_SUBREDDITS..MaxEntities}

\* The master lists the first run can find: the empty list and every list
\* process_arctic_shift_file writes, up to the choice of names.
MasterLists == {<<>>} \cup {l \in TopSubreddits : FirstOccurrencesInOrder(l)}

\* The outcomes of one logical fetch_subreddit_stats call, as run() tells them
\* apart.  run() is modelled against every outcome the signature of
\* fetch_subreddit_stats allows (`-> dict | None`, or an exception); which of
\* them the decorated function produces is the subject of SpecFetch below.
\*   "points"     a JSON body whose time series has at least one valid point
\*   "badpoints"  a non-empty time series without any valid point (rows == [])
\*   "noseries"   a JSON body with no or an empty subscriberCountTimeSeries
\*   "notfound"   None (HTTP 404), or any falsy body
\*   "malformed"  a JSON body whose conversion to rows raises (a body that is
\*                no dict, a utcDay that is no number, a count that is no int)
\*   "permanent"  PermanentError (HTTP 403)
\*   "transient"  any other exception, raised once the retries are exhausted
Outcomes ==
    {"points", "badpoints", "noseries", "notfound", "malformed", "permanent", "transient"}

Verdicts == {"COMPLETED", "TIME_EXHAUSTED", "BLOCKED_COOLDOWN"}

\* The dict handed to save_state.
StateRecord(f, fl, b, at) == [fetched |-> f, failed |-> fl, blocked |-> b, blocked_at |-> at]

\* load_state of a store never written: every state.get falls back to its default.
EmptyState == StateRecord({}, {}, {}, None)

\* hours_since_block >= 24, with both times in ticks
CooldownExpired(now, at) == (now - at) * TickSeconds >= COOLDOWN_HOURS * SECONDS_PER_HOUR

\* Mutant of BudgetExhausted: the time spent inside the fetch calls is not
\* counted as elapsed.
BudgetExhaustedTicksOnly(now, start) ==
    (now - start) * TickSeconds >= GH_ACTIONS_MAX_RUN_SECONDS

\* elapsed >= GH_ACTIONS_MAX_RUN_SECONDS, where elapsed = time.time() - start_time
\* is the clock ticks that passed plus the time the fetch calls of this run took
BudgetExhausted(now, start) ==
    (now - start) * TickSeconds + Len(calls) * latency >= GH_ACTIONS_MAX_RUN_SECONDS

\* consecutive_errors >= MAX_CONSECUTIVE_ERRORS
ThresholdReached(n) == n >= MAX_CONSECUTIVE_ERRORS

\* Mutant of Backlog: the filter forgets the fetched entities.
BacklogIgnoringFetched(subs, f, fl, b) ==
    LET Keep(s) == s \notin fl /\ s \notin b
    IN  SelectSeq(subs, Keep)

\* pending = [s for s in subreddits if s not in fetched and not in failed and not in blocked]
Backlog(subs, f, fl, b) ==
    LET Keep(s) == s \notin f /\ s \notin fl /\ s \notin b
    IN  SelectSeq(subs, Keep)

\* Mutant of BlockedAtNow: a blocking episode is saved with the loaded blocked_at,
\* as the per-entity saves do.
BlockedAtLoaded == blocked_at

\* datetime.now(timezone.utc).isoformat(), the blocked_at of a blocking episode
BlockedAtNow == clock

\* Mutant of RetAllDone: the final return asks for a retrigger.
RetAllDoneRetrigger == TRUE

\* the literal each return statement of run() returns
RetAllBlocked == FALSE
RetThreshold == FALSE
RetTimeBlocked == FALSE
RetTimeExhausted == TRUE
RetAllDone == FALSE

\* main(): `if needs_continuation: sys.exit(2)`
ExitCode == IF needs_continuation THEN 2 ELSE 0

\* run() returns value r, having reached terminal state v
Return(v, r) ==
    /\ pc' = "returned"
    /\ verdict' = v
    /\ needs_continuation' = r
    /\ returned' = <<v, r>>

\* an exception escapes run(): main() never assigns needs_continuation
Raise ==
    /\ pc' = "raised"
    /\ UNCHANGED resultVars

\* the `except Exception` handler, lines 262-266
CountTransient ==
    /\ consecutive_errors' = consecutive_errors + 1
    /\ current_block_batch' = Append(current_block_batch, pending[i])

\* ------------------------------------------------------------------- Init
\* The locals of a process in which run() has not been entered yet.
InitCommon ==
    /\ subreddits_file \in MasterLists
    /\ subreddits = <<>>
    /\ rewrites = 0
    /\ pc = "idle"
    /\ fetched_subreddits = {}
    /\ failed_subreddits = {}
    /\ blocked_subreddits = {}
    /\ blocked_at = None
    /\ pending = <<>>
    /\ i = 1
    /\ consecutive_errors = 0
    /\ current_block_batch = <<>>
    /\ start_time = 1
    /\ stats = "none"
    /\ needs_continuation = FALSE
    /\ verdict = "NONE"
    /\ calls = <<>>
    /\ sink_error = "none"
    /\ returned = <<"NONE", FALSE>>
    /\ runs = 0
    /\ snap = EmptyState
    /\ output = {}
    /\ client_pc = "idle"
    /\ attempt_number = 0
    /\ outcome = "none"
    /\ result = "none"
    /\ num_calls = 0
    /\ last_reset = 0
    /\ client_clock = 0
    /\ requests = <<>>
    /\ logical_calls = 0

\* The first run ever: nothing persisted, a remote free to answer anything.
Init ==
    /\ InitCommon
    /\ state = EmptyState
    /\ clock = 1
    /\ remote = [e \in Names |-> "any"]
    /\ latency = 0

\* ------------------------------------------------- run(): lines 111 - 148
\* Whether the cooldown branch of lines 120-123 is taken on the loaded state.
CooldownClears ==
    /\ state.blocked_at # None
    /\ state.blocked # {}
    /\ CooldownExpired(clock, state.blocked_at)

\* Lines 111-148 with the save_state of line 127, if reached, succeeding.
Startup ==
    /\ pc \in {"idle", "returned", "raised"}
    /\ LET b  == IF CooldownClears THEN {} ELSE state.blocked
           at == IF CooldownClears THEN None ELSE state.blocked_at
           p  == Backlog(subreddits_file, state.fetched, state.failed, b)
       IN  /\ start_time' = clock
           /\ fetched_subreddits' = state.fetched
           /\ failed_subreddits' = state.failed
           /\ blocked_subreddits' = b
           /\ blocked_at' = at
           /\ state' = IF CooldownClears
                       THEN StateRecord(state.fetched, state.failed, {}, None)
                       ELSE state
           /\ subreddits' = subreddits_file
           /\ pending' = p
           /\ i' = 1
           /\ consecutive_errors' = 0
           /\ current_block_batch' = <<>>
           /\ stats' = "none"
           /\ calls' = <<>>
           /\ sink_error' = "none"
           /\ IF p = <<>> /\ b # {}
              THEN Return("BLOCKED_COOLDOWN", RetAllBlocked)
              ELSE /\ pc' = "loop"
                   /\ needs_continuation' = FALSE
                   /\ UNCHANGED <<verdict, returned>>
    /\ UNCHANGED <<envVars, clock>>

StartRun ==
    /\ Startup
    /\ UNCHANGED idemVars

\* Lines 111-127 with the save_state of line 127 raising.
StartupSaveRaises ==
    /\ pc \in {"idle", "returned", "raised"}
    /\ CooldownClears
    /\ start_time' = clock
    /\ fetched_subreddits' = state.fetched
    /\ failed_subreddits' = state.failed
    /\ blocked_subreddits' = {}
    /\ blocked_at' = None
    /\ subreddits' = <<>>
    /\ pending' = <<>>
    /\ i' = 1
    /\ consecutive_errors' = 0
    /\ current_block_batch' = <<>>
    /\ stats' = "none"
    /\ calls' = <<>>
    /\ sink_error' = "save_state"
    /\ pc' = "raised"
    /\ needs_continuation' = FALSE
    /\ UNCHANGED <<storeVars, envVars, clock, verdict, returned>>

StartRunSaveRaises ==
    /\ StartupSaveRaises
    /\ UNCHANGED idemVars

\* Lines 111-135 with load_subreddit_list raising FileNotFoundError (lines
\* 46-50: subreddits.json does not exist), after the cooldown branch and its
\* save_state, if taken, went through.  Nothing in run() catches it.  Whether
\* the file exists when a run is entered is up to the environment.
ListMissing ==
    /\ pc \in {"idle", "returned", "raised"}
    /\ start_time' = clock
    /\ fetched_subreddits' = state.fetched
    /\ failed_subreddits' = state.failed
    /\ blocked_subreddits' = IF CooldownClears THEN {} ELSE state.blocked
    /\ blocked_at' = IF CooldownClears THEN None ELSE state.blocked_at
    /\ state' = IF CooldownClears
                THEN StateRecord(state.fetched, state.failed, {}, None)
                ELSE state
    /\ subreddits' = <<>>
    /\ pending' = <<>>
    /\ i' = 1
    /\ consecutive_errors' = 0
    /\ current_block_batch' = <<>>
    /\ stats' = "none"
    /\ calls' = <<>>
    /\ sink_error' = "none"
    /\ pc' = "raised"
    /\ needs_continuation' = FALSE
    /\ UNCHANGED <<envVars, clock, verdict, returned>>

StartRunListMissing ==
    /\ ListMissing
    /\ UNCHANGED idemVars

\* scripts/fetch_subreddit_list.py, lines 31-108: subreddits.json is rewritten
\* from a dump; nothing else changes.  run() reads the file once (line 135), so
\* a run in progress goes on with the list it loaded and a later run finds
\* the rewritten file.  The script can run at any time.  A dump of fewer than
\* MIN_TOP_SUBREDDITS names ends in IndexError and leaves the file as it is.
\* The script is run at most MaxRewrites times.
process_arctic_shift_file ==
    /\ rewrites < MaxRewrites
    /\ rewrites' = rewrites + 1
    /\ \E top_subreddits \in TopSubreddits : subreddits_file' = top_subreddits
    /\ UNCHANGED <<storeVars, remote, latency, clientVars, clock, pc, localVars,
                   resultVars, calls, sink_error, idemVars>>

\* ------------------------------------------------- run(): lines 150 - 182
AtLoopHead == pc = "loop" /\ i <= Len(pending)

\* Lines 153-164, save_state succeeding.
BlockingDetected ==
    /\ AtLoopHead
    /\ ThresholdReached(consecutive_errors)
    /\ blocked_subreddits' = blocked_subreddits \cup Range(current_block_batch)
    /\ state' = StateRecord(fetched_subreddits, failed_subreddits,
                            blocked_subreddits', BlockedAtNow)
    /\ sink_error' = "none"
    /\ Return("BLOCKED_COOLDOWN", RetThreshold)
    /\ UNCHANGED <<envVars, clock, fetched_subreddits, failed_subreddits,
                   blocked_at, subreddits, pending, i, consecutive_errors, current_block_batch,
                   start_time, stats, calls, idemVars>>

\* Lines 153-157, save_state raising.
BlockingDetectedSaveRaises ==
    /\ AtLoopHead
    /\ ThresholdReached(consecutive_errors)
    /\ blocked_subreddits' = blocked_subreddits \cup Range(current_block_batch)
    /\ sink_error' = "save_state"
    /\ Raise
    /\ UNCHANGED <<storeVars, envVars, clock, fetched_subreddits, failed_subreddits,
                   blocked_at, subreddits, pending, i, consecutive_errors, current_block_batch,
                   start_time, stats, calls, idemVars>>

\* Mutant of TimeExhaustedBlocked: the new batch replaces the blocked set
\* instead of being added to it.
TimeExhaustedBlockedReplaces ==
    /\ AtLoopHead
    /\ ~ThresholdReached(consecutive_errors)
    /\ BudgetExhausted(clock, start_time)
    /\ current_block_batch # <<>>
    /\ blocked_subreddits' = Range(current_block_batch)
    /\ state' = StateRecord(fetched_subreddits, failed_subreddits,
                            blocked_subreddits', BlockedAtNow)
    /\ sink_error' = "none"
    /\ Return("BLOCKED_COOLDOWN", RetTimeBlocked)
    /\ UNCHANGED <<envVars, clock, fetched_subreddits, failed_subreddits,
                   blocked_at, subreddits, pending, i, consecutive_errors, current_block_batch,
                   start_time, stats, calls, idemVars>>

\* Lines 167-180: budget spent with a non-empty failure batch, save_state succeeding.
TimeExhaustedBlocked ==
    /\ AtLoopHead
    /\ ~ThresholdReached(consecutive_errors)
    /\ BudgetExhausted(clock, start_time)
    /\ current_block_batch # <<>>
    /\ blocked_subreddits' = blocked_subreddits \cup Range(current_block_batch)
    /\ state' = StateRecord(fetched_subreddits, failed_subreddits,
                            blocked_subreddits', BlockedAtNow)
    /\ sink_error' = "none"
    /\ Return("BLOCKED_COOLDOWN", RetTimeBlocked)
    /\ UNCHANGED <<envVars, clock, fetched_subreddits, failed_subreddits,
                   blocked_at, subreddits, pending, i, consecutive_errors, current_block_batch,
                   start_time, stats, calls, idemVars>>

\* Lines 167-172, save_state raising.
TimeExhaustedBlockedSaveRaises ==
    /\ AtLoopHead
    /\ ~ThresholdReached(consecutive_errors)
    /\ BudgetExhausted(clock, start_time)
    /\ current_block_batch # <<>>
    /\ blocked_subreddits' = blocked_subreddits \cup Range(current_block_batch)
    /\ sink_error' = "save_state"
    /\ Raise
    /\ UNCHANGED <<storeVars, envVars, clock, fetched_subreddits, failed_subreddits,
                   blocked_at, subreddits, pending, i, consecutive_errors, current_block_batch,
                   start_time, stats, calls, idemVars>>

\* Lines 167-170 and 181-182: budget spent with an empty failure batch.
TimeExhausted ==
    /\ AtLoopHead
    /\ ~ThresholdReached(consecutive_errors)
    /\ BudgetExhausted(clock, start_time)
    /\ current_block_batch = <<>>
    /\ sink_error' = "none"
    /\ Return("TIME_EXHAUSTED", RetTimeExhausted)
    /\ UNCHANGED <<storeVars, envVars, clock, localVars, calls, idemVars>>

\* Line 187: the call of fetch_subreddit_stats(subreddit) and its outcome.
Fetch ==
    /\ AtLoopHead
    /\ ~ThresholdReached(consecutive_errors)
    /\ ~BudgetExhausted(clock, start_time)
    /\ \E o \in Outcomes :
         /\ remote[pending[i]] \in {"any", o}
         /\ stats' = o
         /\ calls' = Append(calls, [subreddit |-> pending[i],
                                    transient |-> (o = "transient")])
    /\ pc' = "got"
    /\ sink_error' = "none"
    /\ UNCHANGED <<storeVars, envVars, clock, fetched_subreddits, failed_subreddits,
                   blocked_subreddits, blocked_at, subreddits, pending, i, consecutive_errors,
                   current_block_batch, start_time, resultVars, idemVars>>

\* Lines 268-269: the loop has walked the whole backlog.
AllDone ==
    /\ pc = "loop"
    /\ i > Len(pending)
    /\ sink_error' = "none"
    /\ Return("COMPLETED", RetAllDone)
    /\ UNCHANGED <<storeVars, envVars, clock, localVars, calls, idemVars>>

\* ------------------------------------------------- run(): lines 186 - 266
\* The loop moves on to the next backlog entity.
NextEntity ==
    /\ i' = i + 1
    /\ stats' = "none"
    /\ pc' = "loop"

\* Lines 188-200 and 202-213: not found / no time series, save_state succeeding.
NoData ==
    /\ pc = "got"
    /\ stats \in {"notfound", "noseries"}
    /\ consecutive_errors' = 0
    /\ current_block_batch' = <<>>
    /\ fetched_subreddits' = fetched_subreddits \cup {pending[i]}
    /\ state' = StateRecord(fetched_subreddits', failed_subreddits,
                            blocked_subreddits, blocked_at)
    /\ sink_error' = "none"
    /\ NextEntity
    /\ UNCHANGED <<envVars, clock, failed_subreddits, blocked_subreddits,
                   blocked_at, subreddits, pending, start_time, resultVars, calls, idemVars>>

\* Lines 188-194 (or 202-207) with save_state raising inside the try block:
\* the counters were reset on lines 188-189, then `except Exception` (262-266) runs.
NoDataSaveRaises ==
    /\ pc = "got"
    /\ stats \in {"notfound", "noseries"}
    /\ fetched_subreddits' = fetched_subreddits \cup {pending[i]}
    /\ consecutive_errors' = 0 + 1
    /\ current_block_batch' = <<pending[i]>>
    /\ sink_error' = "save_state"
    /\ NextEntity
    /\ UNCHANGED <<storeVars, envVars, clock, failed_subreddits, blocked_subreddits,
                   blocked_at, subreddits, pending, start_time, resultVars, calls, idemVars>>

\* Lines 188-238: rows are converted; a non-empty table is handed to
\* save_raw_parquet, which returns.
RowsConverted ==
    /\ pc = "got"
    /\ stats \in {"points", "badpoints"}
    /\ consecutive_errors' = 0
    /\ current_block_batch' = <<>>
    /\ pc' = "mark"
    /\ sink_error' = "none"
    /\ UNCHANGED <<state, envVars, clock, fetched_subreddits, failed_subreddits,
                   blocked_subreddits, blocked_at, subreddits, pending, i, start_time, stats,
                   resultVars, calls>>

ConvertRows ==
    /\ RowsConverted
    /\ UNCHANGED idemVars

\* The same step with the Output Sink tracked: `if rows:` (line 227) hands the
\* table of an entity with at least one valid point to save_raw_parquet.
ConvertRowsWrites ==
    /\ RowsConverted
    /\ output' = IF stats = "points" THEN output \cup {pending[i]} ELSE output
    /\ UNCHANGED <<runs, snap>>

\* Lines 188-233 with the conversion raising (stats.get, utc_day_to_date or
\* pa.array), then `except Exception`: counted like a transient failure, after
\* the counters were reset on lines 188-189.
ConversionRaises ==
    /\ pc = "got"
    /\ stats = "malformed"
    /\ consecutive_errors' = 0 + 1
    /\ current_block_batch' = <<pending[i]>>
    /\ sink_error' = "none"
    /\ NextEntity
    /\ UNCHANGED <<storeVars, envVars, clock, fetched_subreddits, failed_subreddits,
                   blocked_subreddits, blocked_at, subreddits, pending, start_time, resultVars,
                   calls, idemVars>>

\* Mutant of SaveParquetRaises: the entity is added to fetched before its rows
\* are handed to save_raw_parquet.
SaveParquetRaisesAfterMark ==
    /\ pc = "got"
    /\ stats = "points"
    /\ fetched_subreddits' = fetched_subreddits \cup {pending[i]}
    /\ consecutive_errors' = 0 + 1
    /\ current_block_batch' = <<pending[i]>>
    /\ sink_error' = "save_raw_parquet"
    /\ NextEntity
    /\ UNCHANGED <<storeVars, envVars, clock, failed_subreddits, blocked_subreddits,
                   blocked_at, subreddits, pending, start_time, resultVars, calls, idemVars>>

\* Lines 188-235 with save_raw_parquet raising, then `except Exception`.
SaveParquetRaises ==
    /\ pc = "got"
    /\ stats = "points"
    /\ consecutive_errors' = 0 + 1
    /\ current_block_batch' = <<pending[i]>>
    /\ sink_error' = "save_raw_parquet"
    /\ NextEntity
    /\ UNCHANGED <<storeVars, envVars, clock, fetched_subreddits, failed_subreddits,
                   blocked_subreddits, blocked_at, subreddits, pending, start_time, resultVars,
                   calls, idemVars>>

\* Lines 240-247, save_state succeeding.
MarkFetched ==
    /\ pc = "mark"
    /\ fetched_subreddits' = fetched_subreddits \cup {pending[i]}
    /\ state' = StateRecord(fetched_subreddits', failed_subreddits,
                            blocked_subreddits, blocked_at)
    /\ sink_error' = "none"
    /\ NextEntity
    /\ UNCHANGED <<envVars, clock, failed_subreddits, blocked_subreddits,
                   blocked_at, subreddits, pending, consecutive_errors, current_block_batch,
                   start_time, resultVars, calls, idemVars>>

\* Lines 240-242 with save_state raising, then `except Exception`.
MarkFetchedSaveRaises ==
    /\ pc = "mark"
    /\ fetched_subreddits' = fetched_subreddits \cup {pending[i]}
    /\ CountTransient
    /\ sink_error' = "save_state"
    /\ NextEntity
    /\ UNCHANGED <<storeVars, envVars, clock, failed_subreddits, blocked_subreddits,
                   blocked_at, subreddits, pending, start_time, resultVars, calls, idemVars>>

\* Lines 249-260, save_state succeeding.
PermanentFailure ==
    /\ pc = "got"
    /\ stats = "permanent"
    /\ failed_subreddits' = failed_subreddits \cup {pending[i]}
    /\ consecutive_errors' = 0
    /\ current_block_batch' = <<>>
    /\ state' = StateRecord(fetched_subreddits, failed_subreddits',
                            blocked_subreddits, blocked_at)
    /\ sink_error' = "none"
    /\ NextEntity
    /\ UNCHANGED <<envVars, clock, fetched_subreddits, blocked_subreddits,
                   blocked_at, subreddits, pending, start_time, resultVars, calls, idemVars>>

\* Lines 249-255 with save_state raising inside the handler: nothing catches it.
PermanentFailureSaveRaises ==
    /\ pc = "got"
    /\ stats = "permanent"
    /\ failed_subreddits' = failed_subreddits \cup {pending[i]}
    /\ consecutive_errors' = 0
    /\ current_block_batch' = <<>>
    /\ sink_error' = "save_state"
    /\ Raise
    /\ UNCHANGED <<storeVars, envVars, clock, fetched_subreddits, blocked_subreddits,
                   blocked_at, subreddits, pending, i, start_time, stats, calls, idemVars>>

\* Mutant of TransientFailure: the handler leaves the loop (`break`).
TransientFailureBreak ==
    /\ pc = "got"
    /\ stats = "transient"
    /\ CountTransient
    /\ sink_error' = "none"
    /\ i' = Len(pending) + 1
    /\ stats' = "none"
    /\ pc' = "loop"
    /\ UNCHANGED <<storeVars, envVars, clock, fetched_subreddits, failed_subreddits,
                   blocked_subreddits, blocked_at, subreddits, pending, start_time, resultVars,
                   calls, idemVars>>

\* Mutant of TransientFailure: the `except Exception` clause is missing and the
\* exception of the fetch escapes run().
TransientFailureEscapes ==
    /\ pc = "got"
    /\ stats = "transient"
    /\ sink_error' = "none"
    /\ Raise
    /\ UNCHANGED <<storeVars, envVars, clock, localVars, calls, idemVars>>

\* Lines 262-266: the fetch raised with its retries exhausted.
TransientFailure ==
    /\ pc = "got"
    /\ stats = "transient"
    /\ CountTransient
    /\ sink_error' = "none"
    /\ NextEntity
    /\ UNCHANGED <<storeVars, envVars, clock, fetched_subreddits, failed_subreddits,
                   blocked_subreddits, blocked_at, subreddits, pending, start_time, resultVars,
                   calls, idemVars>>

\* Time passes.
Tick ==
    /\ clock < MaxClock
    /\ clock' = clock + 1
    /\ sink_error' = "none"
    /\ UNCHANGED <<storeVars, envVars, pc, localVars, resultVars, calls, idemVars>>

Next ==
    \/ StartRun
    \/ StartRunSaveRaises
    \/ StartRunListMissing
    \/ process_arctic_shift_file
    \/ BlockingDetected
    \/ BlockingDetectedSaveRaises
    \/ TimeExhaustedBlocked
    \/ TimeExhaustedBlockedSaveRaises
    \/ TimeExhausted
    \/ Fetch
    \/ AllDone
    \/ NoData
    \/ NoDataSaveRaises
    \/ ConvertRows
    \/ ConversionRaises
    \/ SaveParquetRaises
    \/ MarkFetched
    \/ MarkFetchedSaveRaises
    \/ PermanentFailure
    \/ PermanentFailureSaveRaises
    \/ TransientFailure
    \/ Tick

Spec == Init /\ [][Next]_vars

\* ----------------------------------------------------------------------
\* Two runs in immediate succession against a remote whose answer per entity
\* is fixed, with no time passing (so no budget pressure and no cooldown
\* expiring between the runs) and with sink calls that can raise.  The store
\* starts empty or holding a blocking episode of entity 1, fresh or expired.
BlockedEpisodes ==
    {StateRecord({}, {}, {1}, at) : at \in {1, MaxClock}}

InitIdem ==
    /\ InitCommon
    /\ clock = MaxClock
    /\ remote \in [Range(subreddits_file) -> Outcomes]
    /\ latency = 0
    /\ state \in {EmptyState} \cup (IF Len(subreddits_file) >= 2 THEN BlockedEpisodes ELSE {})

\* run() is entered for the first or the second time; snap keeps the state
\* the previous run left.
StartRunTracked ==
    /\ runs < 2
    /\ Startup
    /\ runs' = runs + 1
    /\ snap' = state
    /\ UNCHANGED output

StartRunTrackedListMissing ==
    /\ runs < 2
    /\ ListMissing
    /\ runs' = runs + 1
    /\ snap' = state
    /\ UNCHANGED output

StartRunTrackedSaveRaises ==
    /\ runs < 2
    /\ StartupSaveRaises
    /\ runs' = runs + 1
    /\ snap' = state
    /\ UNCHANGED output

NextIdem ==
    \/ StartRunTracked
    \/ StartRunTrackedSaveRaises
    \/ BlockingDetected
    \/ BlockingDetectedSaveRaises
    \/ Fetch
    \/ AllDone
    \/ NoData
    \/ NoDataSaveRaises
    \/ ConvertRows
    \/ ConversionRaises
    \/ SaveParquetRaises
    \/ MarkFetched
    \/ MarkFetchedSaveRaises
    \/ PermanentFailure
    \/ PermanentFailureSaveRaises
    \/ TransientFailure

SpecIdem == InitIdem /\ [][NextIdem]_vars

\* ----------------------------------------------------------------------
\* The steps of a run that has been entered: run() is sequential code, and each
\* fetch call returns or raises, so a run in progress keeps taking them.
RunStep ==
    \/ BlockingDetected
    \/ BlockingDetectedSaveRaises
    \/ TimeExhaustedBlocked
    \/ TimeExhaustedBlockedSaveRaises
    \/ TimeExhausted
    \/ Fetch
    \/ AllDone
    \/ NoData
    \/ NoDataSaveRaises
    \/ ConvertRows
    \/ ConversionRaises
    \/ SaveParquetRaises
    \/ MarkFetched
    \/ MarkFetchedSaveRaises
    \/ PermanentFailure
    \/ PermanentFailureSaveRaises
    \/ TransientFailure

\* Up to two runs, with time passing, sink calls raising and the master list
\* missing, or rewritten at any time before the second run is entered (later
\* no run reads the file).
NextLive ==
    \/ StartRunTracked
    \/ StartRunSaveRaises
    \/ StartRunTrackedListMissing
    \/ (runs < 2 /\ process_arctic_shift_file)
    \/ RunStep
    \/ Tick

SpecLive == Init /\ [][NextLive]_vars /\ WF_vars(RunStep)

\* ----------------------------------------------------------------------
\* Runs against a fetch client of fixed latency: every fetch_subreddit_stats
\* call takes `latency` seconds and nothing else takes time.  The remote's
\* answer per entity is fixed and the sinks do not raise.
Latencies == {k * LatencyStep : k \in 1..MaxLatencySteps}

InitBudget ==
    /\ InitCommon
    /\ state = EmptyState
    /\ clock = 1
    /\ remote \in [Range(subreddits_file) -> Outcomes]
    /\ latency \in Latencies

NextBudget ==
    \/ StartRunTracked
    \/ BlockingDetected
    \/ TimeExhaustedBlocked
    \/ TimeExhausted
    \/ Fetch
    \/ AllDone
    \/ NoData
    \/ ConvertRows
    \/ ConversionRaises
    \/ MarkFetched
    \/ PermanentFailure
    \/ TransientFailure

SpecBudget == InitBudget /\ [][NextBudget]_vars

\* ----------------------------------------------------------------------
\* Up to two runs with the Output Sink tracked, against a remote whose answer
\* per entity is fixed; sink calls may raise and the process may be stopped at
\* any point of a run.  No time passes (no budget pressure, no cooldown expiry).
Crash ==
    /\ pc \in {"loop", "got", "mark"}
    /\ pc' = "raised"
    /\ sink_error' = "none"
    /\ UNCHANGED <<storeVars, envVars, clock, localVars, resultVars, calls, idemVars>>

InitOutput ==
    /\ InitCommon
    /\ state = EmptyState
    /\ clock = 1
    /\ remote \in [Range(subreddits_file) -> Outcomes]
    /\ latency = 0

NextOutput ==
    \/ StartRunTracked
    \/ BlockingDetected
    \/ BlockingDetectedSaveRaises
    \/ Fetch
    \/ AllDone
    \/ NoData
    \/ NoDataSaveRaises
    \/ ConvertRowsWrites
    \/ ConversionRaises
    \/ SaveParquetRaises
    \/ MarkFetched
    \/ MarkFetchedSaveRaises
    \/ PermanentFailure
    \/ PermanentFailureSaveRaises
    \/ TransientFailure
    \/ Crash

SpecOutput == InitOutput /\ [][NextOutput]_vars

\* ----------------------------------------------------------------------
\* fetch_subreddit_stats on its own, lines 68-94: one logical call goes through
\* sleep_and_retry(limits(retry(f))), outermost first.  Position client_pc:
\*   "idle"     no call made yet
\*   "limit"    in the wrapper of @limits, about to count the call
\*   "attempt"  tenacity is about to call the undecorated function
\*   "decide"   an attempt has ended; tenacity decides what to do with it
\*   "done"     the logical call has returned or raised
\* Time is counted in seconds and passes in the HTTP request, in the backoff
\* sleep and in the rate limiter's sleep.
engineVars == <<state, subreddits_file, rewrites, remote, latency, clock, pc, localVars, resultVars,
                calls, sink_error, idemVars>>

\* How one attempt (lines 81-94) can end:
\*   "body"       response.json() is returned
\*   "notfound"   HTTP 404, None is returned
\*   "forbidden"  HTTP 403, PermanentError is raised
\*   "transient"  HTTP 429, raise_for_status() or get() raises
AttemptOutcomes == {"body", "notfound", "forbidden", "transient"}

\* retry_state.outcome.exception(): the exception of the attempt, None if it returned
AttemptException(o) ==
    CASE o = "forbidden" -> "PermanentError"
      [] o = "transient" -> "Exception"
      [] OTHER -> "None"

\* retry_state.outcome.result(): the value of the attempt, or its exception raised
AttemptResult(o) ==
    CASE o = "body" -> "body"
      [] o = "notfound" -> "None"
      [] OTHER -> AttemptException(o)

\* lines 61-65
should_retry(exception) == IF exception = "PermanentError" THEN FALSE ELSE TRUE

\* line 73: retry=lambda retry_state: should_retry(retry_state.outcome.exception())
\* if retry_state.outcome else True; the outcome of a finished attempt is an
\* object and so is true.
RetryPredicate(o) == IF o # "none" THEN should_retry(AttemptException(o)) ELSE TRUE

\* reraise=True once the stop condition holds: the exception of the last attempt
\* if it raised, else tenacity's RetryError
Reraise(o) == IF AttemptException(o) # "None" THEN AttemptException(o) ELSE "RetryError"

\* wait_exponential(multiplier=2, min=5, max=120) before attempt n + 1
Wait(n) ==
    LET exp == WAIT_MULTIPLIER * (2 ^ (n - 1))
        capped == IF exp < WAIT_MAX THEN exp ELSE WAIT_MAX
    IN  IF capped > WAIT_MIN THEN capped ELSE WAIT_MIN

\* ratelimit: period_remaining = period - (clock() - last_reset)
PeriodRemaining == LIMIT_PERIOD - (client_clock - last_reset)

\* the requests sent in the 60 seconds up to now
Recent(reqs) ==
    LET InWindow(t) == t > client_clock - LIMIT_PERIOD
    IN  SelectSeq(reqs, InWindow)

\* run() (or any caller) calls fetch_subreddit_stats(subreddit).
CallFetch ==
    /\ client_pc \in {"idle", "done"}
    /\ logical_calls < MaxCalls
    /\ logical_calls' = logical_calls + 1
    /\ client_pc' = "limit"
    /\ attempt_number' = 0
    /\ outcome' = "none"
    /\ result' = "none"
    /\ UNCHANGED <<engineVars, num_calls, last_reset, client_clock, requests>>

\* @limits: the call is counted (in a new period if the last one is over) and
\* let through.
LimitAdmits ==
    /\ client_pc = "limit"
    /\ LET fresh == PeriodRemaining <= 0
           n == (IF fresh THEN 0 ELSE num_calls) + 1
       IN  /\ n <= STATS_CALLS_PER_MINUTE
           /\ num_calls' = n
           /\ last_reset' = IF fresh THEN client_clock ELSE last_reset
    /\ client_pc' = "attempt"
    /\ UNCHANGED <<engineVars, attempt_number, outcome, result, client_clock,
                   requests, logical_calls>>

\* @limits raises RateLimitException(period_remaining); @sleep_and_retry sleeps
\* that long and calls again.
LimitSleeps ==
    /\ client_pc = "limit"
    /\ PeriodRemaining > 0
    /\ num_calls + 1 > STATS_CALLS_PER_MINUTE
    /\ num_calls' = num_calls + 1
    /\ client_clock' = client_clock + PeriodRemaining
    /\ UNCHANGED <<engineVars, client_pc, attempt_number, outcome, result,
                   last_reset, requests, logical_calls>>

\* One attempt: lines 81-94 send one HTTP request and end in outcome o.
Attempt ==
    /\ client_pc = "attempt"
    /\ \E o \in AttemptOutcomes : outcome' = o
    /\ attempt_number' = attempt_number + 1
    /\ requests' = Append(Recent(requests), client_clock)
    /\ client_clock' = client_clock + RequestSeconds
    /\ client_pc' = "decide"
    /\ UNCHANGED <<engineVars, result, num_calls, last_reset, logical_calls>>

\* tenacity: the retry predicate is false, the attempt's result is the call's.
ReturnResult ==
    /\ client_pc = "decide"
    /\ ~RetryPredicate(outcome)
    /\ result' = AttemptResult(outcome)
    /\ client_pc' = "done"
    /\ UNCHANGED <<engineVars, attempt_number, outcome, num_calls, last_reset,
                   client_clock, requests, logical_calls>>

\* tenacity: the retry predicate is true and stop_after_attempt(5) holds.
StopRetrying ==
    /\ client_pc = "decide"
    /\ RetryPredicate(outcome)
    /\ attempt_number >= STOP_AFTER_ATTEMPT
    /\ result' = Reraise(outcome)
    /\ client_pc' = "done"
    /\ UNCHANGED <<engineVars, attempt_number, outcome, num_calls, last_reset,
                   client_clock, requests, logical_calls>>

\* tenacity: the retry predicate is true and attempts are left: sleep, then
\* attempt again.
Backoff ==
    /\ client_pc = "decide"
    /\ RetryPredicate(outcome)
    /\ attempt_number < STOP_AFTER_ATTEMPT
    /\ client_clock' = client_clock + Wait(attempt_number)
    /\ client_pc' = "attempt"
    /\ UNCHANGED <<engineVars, attempt_number, outcome, result, num_calls,
                   last_reset, requests, logical_calls>>

NextFetch ==
    \/ CallFetch
    \/ LimitAdmits
    \/ LimitSleeps
    \/ Attempt
    \/ ReturnResult
    \/ StopRetrying
    \/ Backoff

\* The process has just imported the module (the decorators were applied at
\* time 0) and run() plays no part.
InitFetch ==
    /\ InitCommon
    /\ subreddits_file = <<>>
    /\ state = EmptyState
    /\ clock = 1
    /\ remote = <<>>
    /\ latency = 0

SpecFetch == InitFetch /\ [][NextFetch]_vars

\* ======================================================================
\* Claims
\* ======================================================================
Attempted == {calls[k].subreddit : k \in 1..Len(calls)}
Persisted == state.fetched \cup state.failed \cup state.blocked
InRun == pc \in {"loop", "got", "mark"}

\* calls[k .. k+MAX_CONSECUTIVE_ERRORS-1] all ended in transient failure
TransientStreakAt(k) ==
    /\ k + MAX_CONSECUTIVE_ERRORS - 1 <= Len(calls)
    /\ \A j \in k..(k + MAX_CONSECUTIVE_ERRORS - 1) : calls[j].transient

StreakEntities(k) == {calls[j].subreddit : j \in k..(k + MAX_CONSECUTIVE_ERRORS - 1)}

\* C1 (as claimed): a run in which MAX_CONSECUTIVE_ERRORS consecutive backlog
\* entities ended in transient failure, wherever the streak lies in the backlog,
\* returns in BLOCKED_COOLDOWN, and of the entities it attempted exactly those
\* of the streak are in the persisted blocked set, with a blocked_at taken
\* during the run.
C1_BlockingDetection ==
    \A k \in 1..Len(calls) :
        (pc = "returned" /\ TransientStreakAt(k)) =>
            /\ verdict = "BLOCKED_COOLDOWN"
            /\ state.blocked \cap Attempted = StreakEntities(k)
            /\ state.blocked_at >= start_time

\* C2 (as claimed): a sink call that raises is never absorbed: right after
\* save_state or save_raw_parquet raised, the exception has escaped run(), and
\* the entity being handled was not put into the failure batch.
C2_SinkFailureFailFast ==
    sink_error # "none" =>
        /\ pc = "raised"
        /\ \A k \in 1..Len(calls) :
              (k = Len(calls) /\ ~calls[k].transient)
                  => calls[k].subreddit \notin Range(current_block_batch)

\* the sets of a persisted state are pairwise disjoint
Disjoint(st) ==
    /\ st.fetched \cap st.failed = {}
    /\ st.fetched \cap st.blocked = {}
    /\ st.failed \cap st.blocked = {}

\* no name occurs twice in the list
UniqueNames(l) == \A j \in 1..Len(l) : \A k \in 1..Len(l) : l[j] = l[k] => j = k

\* C3 (as claimed): with a master list of unique names, a step taken from a
\* persisted state whose sets fetched, failed and blocked are pairwise disjoint
\* leaves a persisted state whose sets are pairwise disjoint.
C3_Disjoint ==
    [][(UniqueNames(subreddits) /\ UniqueNames(subreddits') /\ Disjoint(state))
          => Disjoint(state')]_vars

\* C4: in every persisted state blocked_at is non-null iff blocked is non-empty.
C4_BlockedAtIffBlocked == (state.blocked_at # None) <=> (state.blocked # {})

\* C4 witness: a blocking episode has been persisted by a run that returned.
C4_Witness ==
    /\ pc = "returned"
    /\ verdict = "BLOCKED_COOLDOWN"
    /\ state.blocked # {}
    /\ state.blocked_at # None

\* The step in which a run returns COMPLETED (lines 268-269).
CompletedStep == pc = "loop" /\ pc' = "returned" /\ verdict' = "COMPLETED"

\* C5 (as claimed): a run that ends COMPLETED leaves no entity of the master
\* list pending.
C5_CompletedNothingPending ==
    [][CompletedStep => Range(subreddits) \subseteq Persisted']_vars

\* C5 (amended): a run that ends COMPLETED has made one fetch call per element
\* of its backlog, in order; an entity of the master list that is still
\* pending is one this run attempted.
C5_CompletedAllAttempted ==
    [][CompletedStep =>
          /\ [k \in 1..Len(calls') |-> calls'[k].subreddit] = pending'
          /\ Range(subreddits) \subseteq (Persisted' \cup Attempted')
      ]_vars

\* C5 witness: a COMPLETED run of two or more fetches that leaves an entity it
\* attempted pending.
C5_Witness ==
    /\ pc = "returned"
    /\ verdict = "COMPLETED"
    /\ Len(calls) >= 2
    /\ Attempted \ Persisted # {}

\* C6 (as claimed): a run that returns in another terminal state than the run
\* that returned before it returns another value than that run did.
C6_TriState ==
    [][(returned[1] # "NONE" /\ returned'[1] # returned[1]) => returned'[2] # returned[2]]_vars

\* C6 (amended): the return value is two-valued: it is True exactly for
\* TIME_EXHAUSTED and False for both COMPLETED and BLOCKED_COOLDOWN, and main()
\* exits with code 2 exactly after TIME_EXHAUSTED.
C6_RetriggerSignal ==
    /\ returned[1] # "NONE" => returned[2] = (returned[1] = "TIME_EXHAUSTED")
    /\ pc = "returned" => /\ returned = <<verdict, needs_continuation>>
                          /\ needs_continuation = (verdict = "TIME_EXHAUSTED")
                          /\ (ExitCode = 2) = (verdict = "TIME_EXHAUSTED")

\* C6 witness: a run returned True in TIME_EXHAUSTED, and main() exits with
\* code 2, after an earlier run had ended in BLOCKED_COOLDOWN and a fetch had
\* gone through.
C6_Witness ==
    /\ pc = "returned"
    /\ returned = <<"TIME_EXHAUSTED", TRUE>>
    /\ ExitCode = 2
    /\ state.blocked # {}
    /\ state.fetched # {}

SecondRunReturned == pc = "returned" /\ runs = 2

\* C7 (as claimed): with a fixed remote and no time pressure, the second of two
\* runs leaves the persisted fetched, failed and blocked sets as the first run
\* left them, whatever the outcomes.
C7_Idempotent ==
    SecondRunReturned =>
        /\ state.fetched = snap.fetched
        /\ state.failed = snap.failed
        /\ state.blocked = snap.blocked

\* The persisted state st holds a blocking episode whose cooldown is over,
\* which the next run to start will clear (lines 120-127).
CooldownOver(st) ==
    /\ st.blocked_at # None
    /\ st.blocked # {}
    /\ CooldownExpired(clock, st.blocked_at)

\* Nothing of the master list is pending in the persisted state st.
NothingPending(st) ==
    Range(subreddits_file) \subseteq (st.fetched \cup st.failed \cup st.blocked)

\* C7 (amended): when the first run, whether it returned or a sink call made it
\* raise, leaves no entity of the master list pending and no cooldown that is
\* over, the second run has an empty backlog, makes no fetch call, raises
\* nothing and leaves the persisted state, blocked_at included, exactly as the
\* first run left it.
C7_IdempotentOnceBacklogEmpty ==
    (runs = 2 /\ NothingPending(snap) /\ ~CooldownOver(snap))
    => (state = snap /\ calls = <<>> /\ pending = <<>> /\ pc \in {"loop", "returned"})

\* C7 witness: a second run has returned after a first run that left entities
\* fetched, failed and blocked, and none pending.
C7_Witness ==
    /\ SecondRunReturned
    /\ NothingPending(snap)
    /\ ~CooldownOver(snap)
    /\ snap.fetched # {}
    /\ snap.failed # {}
    /\ snap.blocked # {}

\* A step that enters run() and gets past line 139 (time does not pass in it).
StartStep ==
    /\ pc \in {"idle", "returned", "raised"}
    /\ pc' \in {"loop", "returned"}
    /\ clock' = clock
    /\ rewrites' = rewrites

\* A step that enters run() and ends in the FileNotFoundError of line 135.
ListMissingStep ==
    /\ pc \in {"idle", "returned", "raised"}
    /\ pc' = "raised"
    /\ sink_error' = "none"
    /\ clock' = clock
    /\ rewrites' = rewrites

\* A step that enters run() and gets past line 132.
EnterStep == StartStep \/ ListMissingStep

\* C8 (as claimed): a run that starts with blocked_at at least 24h old clears
\* and persists blocked and blocked_at, and every previously blocked entity of
\* the master list is in its backlog; a run that starts earlier leaves blocked
\* untouched and has no blocked entity in its backlog.
C8_CooldownExpiry ==
    [][StartStep =>
        IF state.blocked_at # None /\ CooldownExpired(clock, state.blocked_at)
        THEN /\ state'.blocked = {}
             /\ state'.blocked_at = None
             /\ (state.blocked \cap Range(subreddits')) \subseteq Range(pending')
        ELSE /\ state'.blocked = state.blocked
             /\ state'.blocked_at = state.blocked_at
             /\ state.blocked \cap Range(pending') = {}
      ]_vars

\* C9 (as claimed): persisted fetched and failed only grow; persisted blocked
\* shrinks only in the step that clears it at cooldown expiry; and no fetch is
\* started for an entity that is in the persisted fetched or failed set.
C9_TerminalDispositions ==
    [][/\ state.fetched \subseteq state'.fetched
       /\ state.failed \subseteq state'.failed
       /\ \/ state.blocked \subseteq state'.blocked
          \/ (EnterStep /\ CooldownClears /\ state'.blocked = {})
       /\ (pc = "loop" /\ pc' = "got") =>
              calls'[Len(calls')].subreddit \notin (state.fetched \cup state.failed)
      ]_vars

\* C10 (as claimed): the fetch calls of a run are a prefix of its backlog, in
\* order, no entity is attempted twice, and the backlog is the master list, in
\* order, without the entities that were fetched, failed or blocked when the
\* run computed it.
C10_AttemptsArePrefix ==
    /\ Len(calls) <= Len(pending)
    /\ \A j \in 1..Len(calls) : \A k \in 1..Len(calls) :
          calls[j].subreddit = calls[k].subreddit => j = k
    /\ \A k \in 1..Len(calls) : calls[k].subreddit = pending[k]
    /\ InRun =>
          /\ Len(calls) = IF pc = "loop" THEN i - 1 ELSE i
          /\ LET Kept(e) == /\ e \notin blocked_subreddits
                            /\ \/ e \notin (fetched_subreddits \cup failed_subreddits)
                               \/ e \in Attempted
             IN  pending = SelectSeq(subreddits, Kept)

\* A step that handles the PermanentError raised by the fetch of pending[i].
PermanentStep == pc = "got" /\ stats = "permanent" /\ pc' # "got"

\* C11 (as claimed): the step that handles a permanent failure adds the entity to failed,
\* leaves the transient-error counter at 0 with an empty failure batch, and
\* persists the state with the entity in failed (or, when that save_state
\* raises, lets the exception escape run()); and an entity of the persisted
\* failed set is never, in this or a later run, in the persisted or in-memory
\* fetched or blocked set, nor in the failure batch.
C11_PermanentNotTransient ==
    [][/\ PermanentStep =>
            /\ pending[i] \in failed_subreddits'
            /\ consecutive_errors' = 0
            /\ current_block_batch' = <<>>
            /\ IF sink_error' = "none"
               THEN pending[i] \in state'.failed /\ pc' = "loop"
               ELSE pc' = "raised"
       /\ state'.failed \cap (state'.fetched \cup state'.blocked
                                \cup fetched_subreddits' \cup blocked_subreddits'
                                \cup Range(current_block_batch')) = {}
      ]_vars

\* A step taken from the budget check of lines 167-168 when it fires.
BudgetStep ==
    /\ AtLoopHead
    /\ ~ThresholdReached(consecutive_errors)
    /\ BudgetExhausted(clock, start_time)
    /\ pc' # "loop"

\* C12 (as claimed): at a loop head with the budget spent and the threshold not reached, a
\* non-empty failure batch is added to blocked and persisted with the current
\* time as blocked_at, and the run ends in BLOCKED_COOLDOWN returning False (or
\* the exception of that save_state escapes run()); with an empty batch the run
\* ends in TIME_EXHAUSTED returning True and the persisted state is unchanged.
\* run() returns True from no other step, and then some backlog entity has not
\* been attempted.
C12_TimeBudgetExhaustion ==
    [][/\ BudgetStep =>
            IF current_block_batch # <<>>
            THEN IF sink_error' = "none"
                 THEN /\ state' = StateRecord(fetched_subreddits, failed_subreddits,
                                 blocked_subreddits \cup Range(current_block_batch), clock)
                      /\ pc' = "returned"
                      /\ verdict' = "BLOCKED_COOLDOWN"
                      /\ needs_continuation' = FALSE
                 ELSE pc' = "raised" /\ state' = state
            ELSE /\ pc' = "returned"
                 /\ verdict' = "TIME_EXHAUSTED"
                 /\ needs_continuation' = TRUE
                 /\ state' = state
       /\ (pc # "returned" /\ pc' = "returned" /\ needs_continuation') =>
            /\ BudgetStep
            /\ current_block_batch = <<>>
            /\ verdict' = "TIME_EXHAUSTED"
            /\ Len(calls) < Len(pending)
            /\ pending[i] \notin Attempted
      ]_vars

\* The fetch of no backlog entity of this run ends in a failure that
\* `except Exception` counts.
NoTransientFailure ==
    \A k \in 1..Len(pending) : remote[pending[k]] \notin {"transient", "malformed"}

\* C13: with a budget of T = GH_ACTIONS_MAX_RUN_SECONDS and a fetch client of
\* latency L, a run never attempts more than floor(T/L) + 1 entities.  A run
\* without transient failures that returns TIME_EXHAUSTED had a backlog longer
\* than T/L and attempted the least number of entities whose latencies add up
\* to T; and it does return TIME_EXHAUSTED when the backlog is longer than that
\* number.
C13_TimeBudgetBound ==
    /\ Len(calls) <= (GH_ACTIONS_MAX_RUN_SECONDS \div latency) + 1
    /\ (pc = "returned" /\ NoTransientFailure) =>
          /\ (verdict = "TIME_EXHAUSTED") =>
                /\ Len(pending) * latency > GH_ACTIONS_MAX_RUN_SECONDS
                /\ Len(calls) * latency >= GH_ACTIONS_MAX_RUN_SECONDS
                /\ (Len(calls) - 1) * latency < GH_ACTIONS_MAX_RUN_SECONDS
          /\ ((Len(pending) - 1) * latency >= GH_ACTIONS_MAX_RUN_SECONDS) =>
                verdict = "TIME_EXHAUSTED"

\* C13 witness: a run without transient failures returned TIME_EXHAUSTED after
\* floor(T/L) + 1 attempts, the last one started just inside the budget.
C13_Witness ==
    /\ pc = "returned"
    /\ verdict = "TIME_EXHAUSTED"
    /\ NoTransientFailure
    /\ Len(calls) >= 2
    /\ Len(calls) = (GH_ACTIONS_MAX_RUN_SECONDS \div latency) + 1

\* C14 (as claimed): only an attempt that ended in a transient failure is
\* followed by another attempt, and by at most 5 attempts in all, after which
\* the failure is raised; an attempt that returned a body or None ends the call
\* with that value; an attempt that raised PermanentError ends the call with it.
C14_RetryPolicy ==
    [][(client_pc = "decide") =>
          CASE outcome \in {"body", "notfound"} ->
                   client_pc' = "done" /\ result' = AttemptResult(outcome)
            [] outcome = "forbidden" ->
                   client_pc' = "done" /\ result' = "PermanentError"
            [] OTHER ->
                   IF attempt_number < STOP_AFTER_ATTEMPT
                   THEN client_pc' = "attempt"
                   ELSE client_pc' = "done" /\ result' = "Exception"
      ]_vars

\* C15 (as claimed): at any time, no more than STATS_CALLS_PER_MINUTE HTTP
\* requests, retry attempts included, were sent in the trailing 60 seconds.
C15_RateLimit == Len(Recent(requests)) <= STATS_CALLS_PER_MINUTE

\* A step in which run() returns.
ReturnStep ==
    /\ pc \in {"idle", "loop", "raised", "returned"}
    /\ pc' = "returned"
    /\ clock' = clock
    /\ rewrites' = rewrites

\* The three ways a run ends, told apart as the loop of lines 150-182 does.
EndsBacklogExhausted == i' > Len(pending')
EndsThresholdReached == AtLoopHead /\ ThresholdReached(consecutive_errors)
EndsBudgetExhausted ==
    /\ AtLoopHead
    /\ ~ThresholdReached(consecutive_errors)
    /\ BudgetExhausted(clock, start_time)

\* A run that returns does so in exactly one of the three ways, with the
\* verdict of that way.
ReturnsInOneWay ==
    ReturnStep =>
        /\ \/ EndsBacklogExhausted /\ ~EndsThresholdReached /\ ~EndsBudgetExhausted
           \/ ~EndsBacklogExhausted /\ EndsThresholdReached /\ ~EndsBudgetExhausted
           \/ ~EndsBacklogExhausted /\ ~EndsThresholdReached /\ EndsBudgetExhausted
        /\ EndsBacklogExhausted =>
              /\ [k \in 1..Len(calls') |-> calls'[k].subreddit] = pending'
              /\ verdict' = IF pending' = <<>> /\ blocked_subreddits' # {}
                            THEN "BLOCKED_COOLDOWN" ELSE "COMPLETED"
        /\ EndsThresholdReached => verdict' = "BLOCKED_COOLDOWN"
        /\ EndsBudgetExhausted =>
              verdict' = IF current_block_batch # <<>>
                         THEN "BLOCKED_COOLDOWN" ELSE "TIME_EXHAUSTED"

\* A step in which an exception escapes run().
RaiseStep == pc' = "raised" /\ clock' = clock /\ rewrites' = rewrites

\* C16 (as claimed): every run that has been entered ends, and it ends by
\* returning in exactly one of three ways (backlog exhausted, blocking
\* threshold reached, time budget exhausted): no run ends by an exception.
C16_ThreeWays ==
    /\ [][ReturnsInOneWay /\ ~RaiseStep]_vars
    /\ []<>~InRun

\* C16 (amended): every run that has been entered ends (time and again no run
\* is in progress, which says the same as InRun ~> ~InRun); a run that returns
\* does so in exactly one of the three ways, with the verdict of that way; a
\* run can also end by an exception that escapes run(), and whatever the
\* outcomes of the fetches that exception is one of a save_state call that
\* raised outside the try block or the FileNotFoundError of
\* load_subreddit_list before the loop, never one of a fetch.
C16_RunEnds ==
    /\ [][/\ ReturnsInOneWay
          /\ RaiseStep =>
               \/ /\ sink_error' = "save_state"
                  /\ pc # "mark"
                  /\ pc = "got" => stats = "permanent"
               \/ ListMissingStep
         ]_vars
    /\ []<>~InRun

\* C16 witness: a run that met a transient failure, a permanent failure and a
\* fetch that returned walked its whole backlog and returned.
C16_Witness ==
    /\ pc = "returned"
    /\ verdict = "COMPLETED"
    /\ Len(calls) = MaxEntities
    /\ \E k \in 1..Len(calls) : calls[k].transient
    /\ state.failed # {}
    /\ state.fetched # {}

\* The entities on which an in-memory set and its persisted set disagree.
Unsaved ==
    ((fetched_subreddits \ state.fetched) \cup (state.fetched \ fetched_subreddits))
    \cup ((failed_subreddits \ state.failed) \cup (state.failed \ failed_subreddits))
    \cup ((blocked_subreddits \ state.blocked) \cup (state.blocked \ blocked_subreddits))

\* C17 (as claimed): wherever a run stands or stopped, the persisted fetched,
\* failed and blocked sets differ from the in-memory ones by at most one
\* entity, and at the start of every loop iteration they are equal.
C17_Durability ==
    /\ Cardinality(Unsaved) <= 1
    /\ pc = "loop" => Unsaved = {}

\* The index in calls of the first call of the streak of transient failures
\* that the calls of this run end with (Len(calls) + 1 if they end otherwise).
StreakStart ==
    LET AllTransientFrom(k) == \A j \in k..Len(calls) : calls[j].transient
    IN  CHOOSE k \in 1..(Len(calls) + 1) :
            /\ AllTransientFrom(k)
            /\ \A m \in 1..(k - 1) : ~AllTransientFrom(m)

\* The entities attempted since the last fetch that did not end in a transient
\* failure, in order.
TransientSinceReset ==
    [k \in 1..(Len(calls) + 1 - StreakStart) |-> calls[StreakStart + k - 1].subreddit]

\* C18 (as claimed): at the start of every loop iteration consecutive_errors
\* is the length of current_block_batch, and current_block_batch holds exactly
\* the entities attempted since the last fetch that ended in success, not-found
\* or permanent failure, every one of them a transient failure, none of them in
\* fetched, failed or blocked.
C18_BatchIsStreak ==
    pc = "loop" =>
        /\ consecutive_errors = Len(current_block_batch)
        /\ current_block_batch = TransientSinceReset
        /\ Range(current_block_batch)
              \cap (fetched_subreddits \cup failed_subreddits \cup blocked_subreddits) = {}

\* C19: every entity of the persisted or in-memory fetched set whose fetch
\* returned at least one valid point has its rows in the output sink, sink
\* failures and crashes included; and when a first run stopped with rows written
\* for an entity that is not in the persisted fetched set, the next run has
\* that entity in its backlog, to fetch it again.
C19_OutputBeforeProgress ==
    /\ [](\A e \in state.fetched \cup fetched_subreddits :
              remote[e] = "points" => e \in output)
    /\ [][(StartStep /\ pc = "raised" /\ runs = 1) =>
              \A e \in output \ state.fetched : e \in Range(pending')
         ]_vars

\* C19 witness: the process stopped between save_raw_parquet and save_state,
\* and the next run is fetching that entity again while an entity with points
\* is persisted as fetched.
C19_Witness ==
    /\ pc = "got"
    /\ runs = 2
    /\ pending[i] \in output
    /\ pending[i] \notin state.fetched
    /\ \E e \in state.fetched : remote[e] = "points"

\* A step in which a run records a blocking episode (lines 153-164 or 168-180).
EpisodeStep == pc = "loop" /\ pc' = "returned" /\ verdict' = "BLOCKED_COOLDOWN"

\* C20: the blocked set has one cooldown clock.  A blocking episode keeps the
\* blocked entities the run loaded, adds the failure batch and sets blocked_at
\* to the current time; the per-entity saves leave blocked and blocked_at as
\* loaded; and the persisted blocked set loses entities only all at once, in
\* the start of a run at least 24h after the persisted blocked_at, which clears
\* it whenever that much time has passed.
C20_SingleCooldownClock ==
    [][/\ EpisodeStep =>
            /\ state.blocked \subseteq state'.blocked
            /\ state'.blocked = state.blocked \cup Range(current_block_batch)
            /\ state'.blocked_at = clock
       /\ (pc \in {"got", "mark"}) =>
            /\ state'.blocked = state.blocked
            /\ state'.blocked_at = state.blocked_at
       /\ \/ state.blocked \subseteq state'.blocked
          \/ /\ state'.blocked = {}
             /\ state'.blocked_at = None
             /\ EnterStep
             /\ CooldownExpired(clock, state.blocked_at)
       /\ (EnterStep /\ state.blocked # {}) =>
            IF CooldownExpired(clock, state.blocked_at)
            THEN state'.blocked = {}
            ELSE state'.blocked = state.blocked /\ state'.blocked_at = state.blocked_at
      ]_vars

\* C20 witness: a run that started with an unexpired blocked set has recorded a
\* second episode: the earlier blocked entities are kept, the batch is added,
\* and blocked_at is the time of the second episode.
C20_Witness ==
    /\ pc = "returned"
    /\ verdict = "BLOCKED_COOLDOWN"
    /\ current_block_batch # <<>>
    /\ Range(current_block_batch) \subseteq state.blocked
    /\ state.blocked \ Range(current_block_batch) # {}
    /\ Range(pending) \cap (state.blocked \ Range(current_block_batch)) = {}
    /\ state.blocked_at = clock
    /\ clock > start_time

====
